---- MODULE Spec2Model ----
(***************************************************************************)
(* Model of the FastAPI processing service: submit_file, the background    *)
(* worker _background_process_file, the text/AI pipeline and the           *)
(* ConnectionManager that pushes task events over WebSockets.              *)
(*                                                                         *)
(* The service runs on one asyncio event loop: a coroutine runs without    *)
(* interruption from one await to the next.  Every action below is one     *)
(* such block: it resumes a coroutine at the await it is suspended in and  *)
(* runs its code up to the next await (or to its end).                     *)
(***************************************************************************)
EXTENDS Integers, Sequences, FiniteSets, TLC

(* ------------------------------ bounds --------------------------------- *)
\* submit_file requests served during a behaviour; the uuid4 of a request is
\* modelled by the request's number
MaxSubmits == 2
\* WebSocket connections opened during a behaviour
MaxChannels == 2
\* store operations (execute/commit) the environment lets fail
MaxDbFaults == 1
\* concurrent callers of send_to_user when the manager is taken by itself
MaxPushes == 2
\* rows the table holds when the service is read after a restart
MaxRows == 52
\* timeouts and "ping" texts the keepalive loop of a connection sees
MaxTicks == 2

(* ------------------------- program constants --------------------------- *)
MAX_FILE_SIZE_MB == 10
MAX_FILE_SIZE_BYTES == MAX_FILE_SIZE_MB * 1024 * 1024

\* list_tasks: .limit(50)
ListLimit == 50

valid_tasks == {"summarize", "extract_keywords", "sentiment", "translate", "qa"}

(* ------------------------------ inputs --------------------------------- *)
Users == {1, 2}
TaskIds == 1..MaxSubmits
ChannelIds == 1..MaxChannels
PushIds == 1..MaxPushes
\* the user_id form field: 0 stands for an absent field (None); None and 0 are
\* both falsy in "user_id or current_user.user_id"
FormUserIds == {0} \cup Users
FileSizes == {MAX_FILE_SIZE_BYTES, MAX_FILE_SIZE_BYTES + 1}
TaskTypes == {"summarize", "bogus"}
Filenames == {"a.txt", "b.pdf"}
\* the same with a name whose extension extract_text_from_file has no branch for
AnyFilenames == Filenames \cup {"c.csv"}

\* Optional values: <<>> is None, <<v>> is the value v
NoneVal == <<>>
Some(v) == <<v>>

(* ------------------------------ text ----------------------------------- *)
\* a text is a sequence of one-character strings
IsSpace(ch) == ch \in {" ", "\n", "\t"}

RECURSIVE LStrip(_)
LStrip(s) == IF s # <<>> /\ IsSpace(Head(s)) THEN LStrip(Tail(s)) ELSE s

RECURSIVE RStrip(_)
RStrip(s) ==
  IF s # <<>> /\ IsSpace(s[Len(s)]) THEN RStrip(SubSeq(s, 1, Len(s) - 1)) ELSE s

\* str.strip()
Strip(s) == RStrip(LStrip(s))

\* Path(filename).suffix.lower(), for the file names the model submits
Suffix(filename) ==
  CASE filename = "a.txt" -> ".txt"
    [] filename = "b.pdf" -> ".pdf"
    [] filename = "c.csv" -> ".csv"
    [] OTHER -> ""

(* ------------------------------ state ---------------------------------- *)
VARIABLES
  tasks,               \* table processing_tasks: task id -> row
  staged,              \* task ids whose temporary file exists in UPLOAD_DIR
  bg,                  \* task id -> runs of the worker added to BackgroundTasks
  issued,              \* submit_file requests served so far
  http,                \* request number -> the size and task_type sent, the response
  run,                 \* task id -> locals and position of its worker coroutine
  pipeline,            \* task id -> calls made and outcomes seen by run_full_pipeline
  emitted,             \* <<task id, event>> for which send_to_user was called
  active_connections,  \* ConnectionManager.active_connections: user id -> list
  ws,                  \* channel id -> state of its websocket_endpoint handler
  dbFaults,            \* store failures injected so far
  delivered,           \* task ids whose task_completed event a send_text has sent
  auth,                \* request number -> user_id of the credential it came with
  cred,                \* channel id -> <<user_id of the path, token of the query>>
  push,                \* caller of the manager -> its call of send_to_user
  reply,               \* the last response of get_task_status or list_tasks
  chan                 \* channel id -> its websocket_endpoint coroutine and socket

vars == <<tasks, staged, bg, issued, http, run, pipeline, emitted,
          active_connections, ws, dbFaults, delivered, auth, cred, push, reply,
          chan>>

NoResponse == [size |-> 0, task_type |-> "", code |-> 0, status |-> ""]

NoRun == [pc |-> "none", evt |-> "", it |-> 0, cur |-> 0, dead |-> <<>>,
          orphan |-> FALSE, err |-> "", result |-> <<>>]

\* a caller that is not in send_to_user: the locals of the call as in NoRun,
\* and, for the call last made, what the user's bucket was when it began
\* (start), the connections registered from its beginning on (stable) and
\* those whose send_text was awaited (tried), with success (ok) or not (failed)
NoPush == [pc |-> "idle", user |-> 0, it |-> 0, cur |-> 0, dead |-> <<>>,
           orphan |-> FALSE, exc |-> "", start |-> "",
           stable |-> {}, tried |-> {}, ok |-> {}, failed |-> {}]

NoReply == [op |-> "", principal |-> 0, task_id |-> 0, code |-> 0,
            detail |-> "", body |-> <<>>]

NoPipeline == [extract_calls |-> 0, ai_calls |-> 0, llm_calls |-> 0,
               extract |-> "none", infer |-> "none",
               msg |-> "", ret |-> <<>>, text |-> <<>>]

\* a connection nobody opened: where websocket_endpoint stands, the sends
\* pending on the socket in the order they were called (0 the handler, p the
\* caller p of send_to_user), the first frame the client got, the timeouts and
\* "ping" texts the loop saw, the keepalive and pong frames the client got
NoChan == [pc |-> "none", outq |-> <<>>, first |-> "", idle |-> 0, asked |-> 0,
           keepalives |-> 0, pongs |-> 0]

\* the process as it starts: nothing staged, scheduled or connected
Started ==
  /\ staged = {}
  /\ bg = [t \in TaskIds |-> 0]
  /\ issued = 0
  /\ http = [t \in TaskIds |-> NoResponse]
  /\ run = [t \in TaskIds |-> NoRun]
  /\ pipeline = [t \in TaskIds |-> NoPipeline]
  /\ emitted = {}
  /\ active_connections = <<>>
  /\ ws = [c \in ChannelIds |-> [user |-> 0, st |-> "new"]]
  /\ dbFaults = 0
  /\ delivered = {}
  /\ auth = [t \in TaskIds |-> 0]
  /\ cred = [c \in ChannelIds |-> NoneVal]
  /\ push = [p \in PushIds |-> NoPush]
  /\ reply = NoReply
  /\ chan = [c \in ChannelIds |-> NoChan]

Init == tasks = <<>> /\ Started

(* ------------------------- ConnectionManager --------------------------- *)
Contains(s, x) == \E i \in 1..Len(s) : s[i] = x

\* list.remove(x): removes the first occurrence
RECURSIVE ListRemove(_, _)
ListRemove(s, x) ==
  IF s = <<>> THEN <<>>
  ELSE IF Head(s) = x THEN Tail(s)
  ELSE <<Head(s)>> \o ListRemove(Tail(s), x)

\* dict without key k
DictDel(d, k) == [x \in DOMAIN d \ {k} |-> d[x]]

\* dict with d[k] = v
DictSet(d, k, v) == [x \in DOMAIN d \cup {k} |-> IF x = k THEN v ELSE d[x]]

\* str(KeyError(user_id))
KeyErrorMsg(user_id) == ToString(user_id)

ValueErrorMsg == "list.remove(x): x not in list"

\* ConnectionManager.connect after accept()
ManagerConnect(ac, websocket, user_id) ==
  IF user_id \notin DOMAIN ac
    THEN DictSet(ac, user_id, <<websocket>>)
    ELSE [ac EXCEPT ![user_id] = Append(@, websocket)]

\* ConnectionManager.disconnect: the registry afterwards, whether the list
\* object of user_id was dropped from the dict, and the exception raised
ManagerDisconnect(ac, websocket, user_id) ==
  IF user_id \notin DOMAIN ac
    THEN [ac |-> ac, deleted |-> FALSE, exc |-> NoneVal]
  ELSE IF ~Contains(ac[user_id], websocket)
    THEN [ac |-> ac, deleted |-> FALSE, exc |-> Some(ValueErrorMsg)]
  ELSE LET rest == ListRemove(ac[user_id], websocket) IN
       IF rest = <<>>
         THEN [ac |-> DictDel(ac, user_id), deleted |-> TRUE, exc |-> NoneVal]
         ELSE [ac |-> [ac EXCEPT ![user_id] = rest], deleted |-> FALSE,
               exc |-> NoneVal]

\* send_to_user, "Clean up dead connections": each remove looks the list up
\* in the dict again and raises when the key or the element is gone
RECURSIVE CleanUpDead(_, _, _)
CleanUpDead(ac, user_id, dead) ==
  IF dead = <<>> THEN [ac |-> ac, exc |-> NoneVal]
  ELSE IF user_id \notin DOMAIN ac
    THEN [ac |-> ac, exc |-> Some(KeyErrorMsg(user_id))]
  ELSE IF ~Contains(ac[user_id], Head(dead))
    THEN [ac |-> ac, exc |-> Some(ValueErrorMsg)]
  ELSE CleanUpDead([ac EXCEPT ![user_id] = ListRemove(@, Head(dead))],
                   user_id, Tail(dead))

\* the for loop of send_to_user, seeded fault: it iterates the connections of
\* every user, as broadcast does
IteratedListOfAll(ac, user_id, orphan) ==
  LET bucket(u) == IF u \in DOMAIN ac THEN ac[u] ELSE <<>> IN
  IF orphan THEN <<>> ELSE bucket(1) \o bucket(2)

\* The list object the for loop of send_to_user iterates.  It is read from the
\* dict once; when disconnect deletes the key meanwhile the loop is left with
\* the dropped list (orphan), which is empty and which nothing refills.
IteratedList(ac, user_id, orphan) ==
  IF orphan \/ user_id \notin DOMAIN ac THEN <<>> ELSE ac[user_id]

\* The for loop of send_to_user asking its list iterator for the next element
\* (r.it elements were handed out): either the coroutine suspends in
\* send_text to that connection, or the loop ends, the dead connections are
\* removed and send_to_user returns or raises.
LoopNext(ac, user_id, r) ==
  LET lst == IteratedList(ac, user_id, r.orphan) IN
  IF r.it < Len(lst)
    THEN [fin |-> "suspended", ac |-> ac, exc |-> NoneVal,
          r |-> [r EXCEPT !.cur = lst[r.it + 1], !.it = r.it + 1]]
    ELSE LET cl == CleanUpDead(ac, user_id, r.dead) IN
         [fin |-> IF cl.exc = NoneVal THEN "returned" ELSE "raised",
          ac |-> cl.ac, exc |-> cl.exc,
          r |-> [r EXCEPT !.cur = 0, !.it = 0, !.dead = <<>>,
                          !.orphan = FALSE]]

\* send_to_user, seeded fault: no "if user_id in self.active_connections", the
\* lookup of an absent user raises KeyError
SendToUserUnguarded(ac, user_id, r) ==
  IF user_id \notin DOMAIN ac
    THEN [fin |-> "raised", ac |-> ac, exc |-> Some(KeyErrorMsg(user_id)),
          r |-> r]
    ELSE LoopNext(ac, user_id,
                  [r EXCEPT !.it = 0, !.dead = <<>>, !.orphan = FALSE])

\* a call of send_to_user, up to its first await or its end
SendToUser(ac, user_id, r) ==
  IF user_id \notin DOMAIN ac
    THEN [fin |-> "returned", ac |-> ac, exc |-> NoneVal, r |-> r]
    ELSE LoopNext(ac, user_id,
                  [r EXCEPT !.it = 0, !.dead = <<>>, !.orphan = FALSE])

(* ------------------------------ store ---------------------------------- *)
\* str() of the error a failed execute/commit raises
DbErrorMsg == "connection to the database failed"

\* UPDATE processing_tasks SET ..., seeded fault: no WHERE clause, every row
\* is updated
UpdateEveryTask(tbl, task_id, status, result, error_message) ==
  [id \in DOMAIN tbl |->
     [tbl[id] EXCEPT !.status = status,
                     !.result = IF result = NoneVal THEN @ ELSE result,
                     !.error_message =
                        IF error_message = NoneVal THEN @ ELSE error_message]]

\* UPDATE processing_tasks SET ... WHERE id = task_id, committed
UpdateTask(tbl, task_id, status, result, error_message) ==
  IF task_id \notin DOMAIN tbl THEN tbl
  ELSE [tbl EXCEPT ![task_id] =
          [@ EXCEPT !.status = status,
                    !.result = IF result = NoneVal THEN @ ELSE result,
                    !.error_message =
                       IF error_message = NoneVal THEN @ ELSE error_message]]

(* --------------------------- submit_file ------------------------------- *)
\* "File size check", seeded fault: the maximum itself is refused
TooLargeAtMax(size) == size >= MAX_FILE_SIZE_BYTES

\* "File size check": len(file_content) > settings.MAX_FILE_SIZE_BYTES
TooLarge(size) == size > MAX_FILE_SIZE_BYTES

\* "Create DB record", seeded fault: the row is born in status processing
NewTaskProcessing(user_id, filename, size, task_type) ==
  [user_id |-> user_id, filename |-> filename, file_size |-> size,
   status |-> "processing", task_type |-> task_type,
   result |-> NoneVal, error_message |-> NoneVal]

\* "Create DB record": the ProcessingTaskDB row submit_file adds
NewTask(user_id, filename, size, task_type) ==
  [user_id |-> user_id, filename |-> filename, file_size |-> size,
   status |-> "pending", task_type |-> task_type,
   result |-> NoneVal, error_message |-> NoneVal]

Response(size, task_type, code, status) ==
  [size |-> size, task_type |-> task_type, code |-> code, status |-> status]

\* POST /process/submit, the request that gets task_id from uuid4.
\* commit_ok: whether the INSERT commits.
submit_file(task_id, principal, user_id, filename, size, task_type, commit_ok) ==
  IF TooLarge(size)
    THEN /\ http' = [http EXCEPT ![task_id] = Response(size, task_type, 413, "")]
         /\ UNCHANGED <<tasks, staged, bg, dbFaults>>
  ELSE IF task_type \notin valid_tasks
    THEN /\ http' = [http EXCEPT ![task_id] = Response(size, task_type, 422, "")]
         /\ UNCHANGED <<tasks, staged, bg, dbFaults>>
  ELSE LET effective_user_id == IF user_id = 0 THEN principal ELSE user_id
       IN /\ staged' = staged \cup {task_id}
          /\ IF commit_ok
               THEN /\ tasks' = DictSet(tasks, task_id,
                                   NewTask(effective_user_id, filename, size,
                                           task_type))
                    /\ bg' = [bg EXCEPT ![task_id] = @ + 1]
                    /\ http' = [http EXCEPT ![task_id] =
                                     Response(size, task_type, 202, "pending")]
                    /\ UNCHANGED dbFaults
               ELSE /\ dbFaults < MaxDbFaults
                    /\ dbFaults' = dbFaults + 1
                    /\ http' = [http EXCEPT ![task_id] = Response(size, task_type, 500, "")]
                    /\ UNCHANGED <<tasks, bg>>

\* a request to POST /process/submit whose credential get_current_user
\* decoded to principal, with a file named by one of names
SubmitOf(principal, names) ==
  /\ issued < MaxSubmits
  /\ issued' = issued + 1
  /\ \E user_id \in FormUserIds, filename \in names,
        size \in FileSizes, task_type \in TaskTypes, commit_ok \in BOOLEAN :
        submit_file(issued + 1, principal, user_id, filename, size, task_type,
                    commit_ok)
  /\ UNCHANGED <<run, pipeline, emitted, active_connections, ws, delivered>>
  /\ UNCHANGED <<cred, push, reply, chan>>

SubmitBy(principal) == SubmitOf(principal, Filenames)

Submit ==
  \E principal \in Users : SubmitBy(principal) /\ UNCHANGED auth

\* the same request, with the principal of its credential kept on record
AuthSubmit ==
  \E principal \in Users :
    /\ SubmitBy(principal)
    /\ auth' = [auth EXCEPT ![issued + 1] = principal]

(* ---------------------------- the pipeline ----------------------------- *)
Ok(text) == [ok |-> TRUE, text |-> text, msg |-> ""]
Fail(msg) == [ok |-> FALSE, text |-> <<>>, msg |-> msg]

\* what the staged file may hold, as text
FileTexts == {<<" ">>, <<"h", "i", " ">>}
\* str() of what PyPDF2 raises on a corrupt file
PdfErrors == {"EOF marker not found"}
EmptyFileMsg == "File appears to be empty or unreadable."
\* the ValueError of the fallback branch, for the extension the model submits
UnsupportedMsg == "Unsupported file type: .csv. Supported: .txt, .pdf, .docx"

\* extract_text_from_file: the texts it may return and the errors it may raise
ExtractOutcomes(filename) ==
  LET ext == Suffix(filename) IN
  IF ext = ".txt" THEN {Ok(x) : x \in FileTexts}
  ELSE IF ext = ".pdf"
    THEN {Ok(Strip(x)) : x \in FileTexts} \cup {Fail(m) : m \in PdfErrors}
  ELSE {Ok(x) : x \in FileTexts} \cup {Fail(UnsupportedMsg)}

AllExtractOutcomes == UNION {ExtractOutcomes(f) : f \in Filenames}
AnyExtractOutcomes == UNION {ExtractOutcomes(f) : f \in AnyFilenames}

\* client.chat.completions.create: the message content it may return and the
\* errors it may raise
InferContents == {<<"O", "K", "\n">>}
InferErrors == {"Request timed out."}
InferOutcomes == {Ok(x) : x \in InferContents} \cup {Fail(m) : m \in InferErrors}

\* the same with the answers and errors at the edge: a message content of
\* white space only, an exception whose str() is empty
BlankContents == {<<" ", "\n">>}
SilentErrors == {""}
AnyInferOutcomes ==
  InferOutcomes \cup {Ok(x) : x \in BlankContents}
                \cup {Fail(m) : m \in SilentErrors}

(* -------------------- _background_process_file ------------------------- *)
\* "except Exception as e", seeded fault: the pipeline is tried again
ExceptClauseRetry(r, msg) == [r EXCEPT !.pc = "extract"]

\* "except Exception as e: error_msg = str(e)": the worker goes on to write
\* status failed
ExceptClause(r, msg) == [r EXCEPT !.pc = "commit_failed", !.err = msg]

\* where the worker stands once send_to_user(evt) has suspended, returned or
\* raised: the started push is outside the try statement, the completed push
\* inside it, the failed push inside its except clause
AfterSend(evt, res) ==
  LET r == [res.r EXCEPT !.evt = evt] IN
  IF res.fin = "suspended"
    THEN [r |-> [r EXCEPT !.pc = "send"], remove |-> FALSE]
  ELSE IF res.fin = "returned"
    THEN IF evt = "task_started"
           THEN [r |-> [r EXCEPT !.pc = "extract"], remove |-> FALSE]
           ELSE [r |-> [r EXCEPT !.pc = "done"], remove |-> TRUE]
  ELSE IF evt = "task_started"
    THEN [r |-> [r EXCEPT !.pc = "escaped", !.err = res.exc[1]],
          remove |-> FALSE]
  ELSE IF evt = "task_completed"
    THEN [r |-> ExceptClause(r, res.exc[1]), remove |-> FALSE]
  ELSE [r |-> [r EXCEPT !.pc = "escaped", !.err = res.exc[1]],
        remove |-> TRUE]

\* the worker of task t going on from send_to_user(evt); remove is the finally
\* clause, os.remove(file_path) with FileNotFoundError ignored
Push(t, evt, res) ==
  LET a == AfterSend(evt, res) IN
  /\ run' = [run EXCEPT ![t] = a.r]
  /\ active_connections' = res.ac
  /\ staged' = IF a.remove THEN staged \ {t} ELSE staged
  /\ pipeline' = IF a.r.pc = "extract"
                   THEN [pipeline EXCEPT ![t].extract_calls = @ + 1]
                   ELSE pipeline

\* the run starts: step 1 (status processing) and the started push
ExecMarkProcessing(t, commit_ok) ==
  /\ bg[t] > 0
  /\ run[t].pc = "none"
  /\ IF commit_ok
       THEN /\ tasks' = UpdateTask(tasks, t, "processing", NoneVal, NoneVal)
            /\ emitted' = emitted \cup {<<t, "task_started">>}
            /\ Push(t, "task_started",
                    SendToUser(active_connections, tasks[t].user_id, run[t]))
            /\ UNCHANGED dbFaults
       ELSE /\ dbFaults < MaxDbFaults
            /\ dbFaults' = dbFaults + 1
            /\ run' = [run EXCEPT ![t].pc = "escaped", ![t].err = DbErrorMsg]
            /\ UNCHANGED <<tasks, emitted, active_connections, staged, pipeline>>
  /\ UNCHANGED <<bg, issued, http, ws, delivered, auth, cred, push, reply, chan>>

\* connection.send_text of the running push returns or raises
ExecSend(t) ==
  /\ run[t].pc = "send"
  /\ LET r == run[t]
         sent == ws[r.cur].st = "open"
         r1 == IF sent THEN r ELSE [r EXCEPT !.dead = Append(@, r.cur)]
     IN /\ Push(t, r.evt, LoopNext(active_connections, tasks[t].user_id, r1))
        /\ delivered' = IF sent /\ r.evt = "task_completed"
                           THEN delivered \cup {t} ELSE delivered
  /\ UNCHANGED <<tasks, bg, issued, http, emitted, ws, dbFaults, auth, cred,
                 push, reply, chan>>

\* run_full_pipeline: extract_text_from_file ends; process_with_ai starts
ExecExtract(t, out) ==
  /\ run[t].pc = "extract"
  /\ out \in ExtractOutcomes(tasks[t].filename)
  /\ IF ~out.ok
       THEN /\ run' = [run EXCEPT ![t] = ExceptClause(@, out.msg)]
            /\ pipeline' = [pipeline EXCEPT ![t].extract = "failed",
                                            ![t].msg = out.msg]
     ELSE IF Strip(out.text) = <<>>
       THEN /\ run' = [run EXCEPT ![t] = ExceptClause(@, EmptyFileMsg)]
            /\ pipeline' = [pipeline EXCEPT ![t].extract = "ok",
                                            ![t].text = Some(out.text),
                                            ![t].ai_calls = @ + 1,
                                            ![t].infer = "failed",
                                            ![t].msg = EmptyFileMsg]
     ELSE /\ run' = [run EXCEPT ![t].pc = "infer"]
          /\ pipeline' = [pipeline EXCEPT ![t].extract = "ok",
                                          ![t].text = Some(out.text),
                                          ![t].ai_calls = @ + 1,
                                          ![t].llm_calls = @ + 1]
  /\ UNCHANGED <<tasks, staged, bg, issued, http, emitted, active_connections,
                 ws, dbFaults, delivered, auth, cred, push, reply, chan>>

\* process_with_ai: the model's answer arrives or the call raises
ExecInfer(t, out) ==
  /\ run[t].pc = "infer"
  /\ IF out.ok
       THEN /\ run' = [run EXCEPT ![t].pc = "commit_completed",
                                  ![t].result = Strip(out.text)]
            /\ pipeline' = [pipeline EXCEPT ![t].infer = "ok",
                                            ![t].ret = Some(Strip(out.text))]
       ELSE /\ run' = [run EXCEPT ![t] = ExceptClause(@, out.msg)]
            /\ pipeline' = [pipeline EXCEPT ![t].infer = "failed",
                                            ![t].msg = out.msg]
  /\ UNCHANGED <<tasks, staged, bg, issued, http, emitted, active_connections,
                 ws, dbFaults, delivered, auth, cred, push, reply, chan>>

\* step 4 (status completed, result) and the completed push
ExecCommitCompleted(t, commit_ok) ==
  /\ run[t].pc = "commit_completed"
  /\ IF commit_ok
       THEN /\ tasks' = UpdateTask(tasks, t, "completed",
                                   Some(run[t].result), NoneVal)
            /\ emitted' = emitted \cup {<<t, "task_completed">>}
            /\ Push(t, "task_completed",
                    SendToUser(active_connections, tasks[t].user_id, run[t]))
            /\ UNCHANGED dbFaults
       ELSE /\ dbFaults < MaxDbFaults
            /\ dbFaults' = dbFaults + 1
            /\ run' = [run EXCEPT ![t] = ExceptClause(@, DbErrorMsg)]
            /\ UNCHANGED <<tasks, emitted, active_connections, staged, pipeline>>
  /\ UNCHANGED <<bg, issued, http, ws, delivered, auth, cred, push, reply, chan>>

\* the except clause: status failed, error_message, and the failed push
ExecCommitFailed(t, commit_ok) ==
  /\ run[t].pc = "commit_failed"
  /\ IF commit_ok
       THEN /\ tasks' = UpdateTask(tasks, t, "failed", NoneVal,
                                   Some(run[t].err))
            /\ emitted' = emitted \cup {<<t, "task_failed">>}
            /\ Push(t, "task_failed",
                    SendToUser(active_connections, tasks[t].user_id, run[t]))
            /\ UNCHANGED dbFaults
       ELSE /\ dbFaults < MaxDbFaults
            /\ dbFaults' = dbFaults + 1
            /\ run' = [run EXCEPT ![t].pc = "escaped", ![t].err = DbErrorMsg]
            /\ staged' = staged \ {t}
            /\ UNCHANGED <<tasks, emitted, active_connections, pipeline>>
  /\ UNCHANGED <<bg, issued, http, ws, delivered, auth, cred, push, reply, chan>>

(* ------------------------ websocket_endpoint --------------------------- *)
\* a client opens /ws/{user_id} with a token the handler lets pass (HubOpen
\* has the validation): manager.connect registers the socket
WsConnect(c, user_id) ==
  /\ ws[c].st = "new"
  /\ \A d \in ChannelIds : d < c => ws[d].st # "new"
  /\ ws' = [ws EXCEPT ![c] = [user |-> user_id, st |-> "open"]]
  /\ active_connections' = ManagerConnect(active_connections, c, user_id)
  /\ UNCHANGED <<tasks, staged, bg, issued, http, run, pipeline, emitted,
                 dbFaults, delivered, auth, cred, push, reply, chan>>

\* the client goes away: from now on sends to the socket raise
ClientClose(c) ==
  /\ ws[c].st = "open"
  /\ ws' = [ws EXCEPT ![c].st = "closed"]
  /\ UNCHANGED <<tasks, staged, bg, issued, http, run, pipeline, emitted,
                 active_connections, dbFaults, delivered, auth, cred, push,
                 reply, chan>>

\* receive_text raises WebSocketDisconnect: manager.disconnect
WsDisconnect(c) ==
  /\ ws[c].st = "closed"
  /\ LET d == ManagerDisconnect(active_connections, c, ws[c].user) IN
     /\ active_connections' = d.ac
     /\ ws' = [ws EXCEPT ![c].st = IF d.exc = NoneVal THEN "gone" ELSE "crashed"]
     /\ run' = [t \in TaskIds |->
                  IF /\ d.deleted
                     /\ run[t].pc = "send"
                     /\ tasks[t].user_id = ws[c].user
                    THEN [run[t] EXCEPT !.orphan = TRUE]
                    ELSE run[t]]
  /\ UNCHANGED <<tasks, staged, bg, issued, http, pipeline, emitted, dbFaults,
                 delivered, auth, cred, push, reply, chan>>

(* --------------------------- specification ----------------------------- *)
Next ==
  \/ Submit
  \/ \E t \in TaskIds, commit_ok \in BOOLEAN : ExecMarkProcessing(t, commit_ok)
  \/ \E t \in TaskIds : ExecSend(t)
  \/ \E t \in TaskIds, out \in AllExtractOutcomes : ExecExtract(t, out)
  \/ \E t \in TaskIds, out \in InferOutcomes : ExecInfer(t, out)
  \/ \E t \in TaskIds, commit_ok \in BOOLEAN : ExecCommitCompleted(t, commit_ok)
  \/ \E t \in TaskIds, commit_ok \in BOOLEAN : ExecCommitFailed(t, commit_ok)
  \/ \E c \in ChannelIds, user_id \in Users : WsConnect(c, user_id)
  \/ \E c \in ChannelIds : ClientClose(c)
  \/ \E c \in ChannelIds : WsDisconnect(c)

Spec == Init /\ [][Next]_vars

\* the service with every submission's principal on record and no WebSocket
\* client
AuthNext ==
  \/ AuthSubmit
  \/ \E t \in TaskIds, commit_ok \in BOOLEAN : ExecMarkProcessing(t, commit_ok)
  \/ \E t \in TaskIds, out \in AllExtractOutcomes : ExecExtract(t, out)
  \/ \E t \in TaskIds, out \in InferOutcomes : ExecInfer(t, out)
  \/ \E t \in TaskIds, commit_ok \in BOOLEAN : ExecCommitCompleted(t, commit_ok)
  \/ \E t \in TaskIds, commit_ok \in BOOLEAN : ExecCommitFailed(t, commit_ok)

AuthSpec == Init /\ [][AuthNext]_vars

\* the service without WebSocket clients, with every file name and every
\* answer the model may give.  A step of the worker is taken once it can be: the event loop runs
\* every task that is ready, and the file system and the store answer.  The
\* answer of the model is not the program's to give: ExecInfer has no fairness.
WorkerStep(t) ==
  \/ \E commit_ok \in BOOLEAN : ExecMarkProcessing(t, commit_ok)
  \/ \E out \in AnyExtractOutcomes : ExecExtract(t, out)
  \/ \E commit_ok \in BOOLEAN : ExecCommitCompleted(t, commit_ok)
  \/ \E commit_ok \in BOOLEAN : ExecCommitFailed(t, commit_ok)

\* a submission with any of the file names
SubmitAny ==
  \E principal \in Users : SubmitOf(principal, AnyFilenames) /\ UNCHANGED auth

PipelineNext ==
  \/ SubmitAny
  \/ \E t \in TaskIds : WorkerStep(t)
  \/ \E t \in TaskIds, out \in AnyInferOutcomes : ExecInfer(t, out)

PipelineSpec ==
  /\ Init
  /\ [][PipelineNext]_vars
  /\ \A t \in TaskIds : WF_vars(WorkerStep(t))

(* --------------- the ConnectionManager under any callers --------------- *)
\* a JWT: whether jose_jwt.decode accepts it (signature, expiry) and the
\* user_id of its payload
Jwt(signed, user_id) == [signed |-> signed, user_id |-> user_id]

\* the token query parameter: absent, a JWT of each user, a forged JWT
Tokens ==
  {NoneVal} \cup {Some(Jwt(TRUE, u)) : u \in Users} \cup {Some(Jwt(FALSE, 1))}

\* "Validate JWT for WebSocket": whether websocket_endpoint goes on to
\* manager.connect; "if token:" skips the validation of an absent token
TokenPasses(token, user_id) ==
  IF token = NoneVal THEN TRUE
  ELSE token[1].signed /\ token[1].user_id = user_id

\* the connections in the bucket of user_id
Registered(ac, user_id) ==
  IF user_id \in DOMAIN ac
    THEN {ac[user_id][i] : i \in 1..Len(ac[user_id])}
    ELSE {}

\* the calls suspended in a send, once the registry has become ac: stable
\* keeps the connections still registered, and a call whose list object
\* was dropped from the dict is left with it
Track(ps, ac, user_id, deleted) ==
  [p \in PushIds |->
     IF ps[p].pc = "send"
       THEN [ps[p] EXCEPT
               !.stable = @ \cap Registered(ac, ps[p].user),
               !.orphan = @ \/ (deleted /\ ps[p].user = user_id)]
       ELSE ps[p]]

\* a client opens /ws/{user_id}?token=...: refused with close(4001), or
\* registered by manager.connect
HubOpen(c, user_id, token) ==
  /\ ws[c].st = "new"
  /\ \A d \in ChannelIds : d < c => ws[d].st # "new"
  /\ cred' = [cred EXCEPT ![c] = Some([user_id |-> user_id, token |-> token])]
  /\ IF TokenPasses(token, user_id)
       THEN /\ ws' = [ws EXCEPT ![c] = [user |-> user_id, st |-> "open"]]
            /\ active_connections' = ManagerConnect(active_connections, c, user_id)
       ELSE /\ ws' = [ws EXCEPT ![c] = [user |-> user_id, st |-> "refused"]]
            /\ UNCHANGED active_connections
  /\ UNCHANGED <<tasks, staged, bg, issued, http, run, pipeline, emitted,
                 dbFaults, delivered, auth, push, reply, chan>>

\* receive_text raises WebSocketDisconnect: manager.disconnect
HubDisconnect(c) ==
  /\ ws[c].st = "closed"
  /\ LET d == ManagerDisconnect(active_connections, c, ws[c].user) IN
     /\ active_connections' = d.ac
     /\ ws' = [ws EXCEPT ![c].st = IF d.exc = NoneVal THEN "gone" ELSE "crashed"]
     /\ push' = Track(push, d.ac, ws[c].user, d.deleted)
  /\ UNCHANGED <<tasks, staged, bg, issued, http, run, pipeline, emitted,
                 dbFaults, delivered, auth, cred, reply, chan>>

\* the caller p going on from send_to_user, which suspended, returned or raised
HubAfter(p, res) ==
  /\ active_connections' = res.ac
  /\ push' = [Track(push, res.ac, 0, FALSE) EXCEPT
                ![p] = [res.r EXCEPT
                          !.pc = IF res.fin = "suspended" THEN "send" ELSE res.fin,
                          !.exc = IF res.exc = NoneVal THEN "" ELSE res.exc[1]]]
  /\ UNCHANGED <<tasks, staged, bg, issued, http, run, pipeline, emitted, ws,
                 dbFaults, delivered, auth, cred, reply>>

\* the locals of a call of send_to_user(user_id, message) as it starts
PushStart(ac, user_id) ==
  LET bucket == IF user_id \notin DOMAIN ac THEN "absent"
                ELSE IF ac[user_id] = <<>> THEN "empty"
                ELSE "members"
  IN [NoPush EXCEPT !.user = user_id, !.start = bucket,
                    !.stable = Registered(ac, user_id)]

\* the locals of the call r once connection.send_text has returned (sent) or
\* raised: "except Exception: dead.append(connection)"
SendOutcome(r, sent) ==
  [r EXCEPT !.dead = IF sent THEN @ ELSE Append(@, r.cur),
            !.tried = @ \cup {r.cur},
            !.ok = IF sent THEN @ \cup {r.cur} ELSE @,
            !.failed = IF sent THEN @ ELSE @ \cup {r.cur}]

\* caller p calls send_to_user(user_id, message)
HubPush(p, user_id) ==
  /\ push[p].pc # "send"
  /\ HubAfter(p, SendToUser(active_connections, user_id,
                            PushStart(active_connections, user_id)))
  /\ UNCHANGED chan

\* connection.send_text of the call of p returns or raises
HubSend(p) ==
  /\ push[p].pc = "send"
  /\ LET r == push[p]
         sent == ws[r.cur].st = "open"
     IN HubAfter(p, LoopNext(active_connections, r.user, SendOutcome(r, sent)))
  /\ UNCHANGED chan

HubNext ==
  \/ \E c \in ChannelIds, user_id \in Users, token \in Tokens :
       HubOpen(c, user_id, token)
  \/ \E c \in ChannelIds : ClientClose(c)
  \/ \E c \in ChannelIds : HubDisconnect(c)
  \/ \E p \in PushIds, user_id \in Users : HubPush(p, user_id)
  \/ \E p \in PushIds : HubSend(p)

HubSpec == Init /\ [][HubNext]_vars

(* ------------- websocket_endpoint, every await of the handler ---------- *)
\* the callers of send_to_user while the handlers are followed await by await
Pushers == {1}

\* the texts a client sends
InboundTexts == {"ping", "hello"}

\* what send_json raises on a socket whose client has gone: the
\* WebSocketDisconnect the handler catches, or an exception of another class
SendFailures == {"WebSocketDisconnect", "RuntimeError"}

\* websocket_endpoint after manager.connect, seeded fault: the handler
\* suspends before it calls send_json for the welcome message
WelcomeDeferred(ch) == [ch EXCEPT !.pc = "welcome"]

\* websocket_endpoint after manager.connect: nothing is awaited between the
\* append of connect and the call of send_json for the welcome message
SendWelcome(ch) == [ch EXCEPT !.pc = "welcome", !.outq = Append(@, 0)]

\* the frame the handler's pending send_json carries
HandlerEvent(pc) == IF pc = "welcome" THEN "connected" ELSE pc

\* a frame reaches the client
Deliver(ch, evt) ==
  [ch EXCEPT !.first = IF @ = "" THEN evt ELSE @,
             !.keepalives = IF evt = "keepalive" THEN @ + 1 ELSE @,
             !.pongs = IF evt = "pong" THEN @ + 1 ELSE @]

\* the call of p suspended in send_text: its send joins those pending on the
\* socket
Enqueue(ch, p, res) ==
  IF res.fin = "suspended"
    THEN [ch EXCEPT ![res.r.cur].outq = Append(@, p)]
    ELSE ch

\* "except WebSocketDisconnect: manager.disconnect(websocket, user_id)"; the
\* handler returns, or the ValueError of disconnect leaves it
ExceptDisconnect(c) ==
  LET d == ManagerDisconnect(active_connections, c, ws[c].user) IN
  /\ active_connections' = d.ac
  /\ ws' = [ws EXCEPT ![c].st = IF d.exc = NoneVal THEN "gone" ELSE "crashed"]
  /\ push' = Track(push, d.ac, ws[c].user, d.deleted)
  /\ chan' = [chan EXCEPT
                ![c].pc = IF d.exc = NoneVal THEN "ended" ELSE "aborted",
                ![c].outq = IF @ # <<>> /\ Head(@) = 0 THEN Tail(@) ELSE @]

\* a client opens /ws/{user_id}?token=...: refused with close(4001), or
\* registered, with the welcome message on its way
EndpointOpen(c, user_id, token) ==
  /\ ws[c].st = "new"
  /\ \A d \in ChannelIds : d < c => ws[d].st # "new"
  /\ IF TokenPasses(token, user_id)
       THEN /\ ws' = [ws EXCEPT ![c] = [user |-> user_id, st |-> "open"]]
            /\ active_connections' = ManagerConnect(active_connections, c, user_id)
            /\ chan' = [chan EXCEPT ![c] = SendWelcome(@)]
       ELSE /\ ws' = [ws EXCEPT ![c] = [user |-> user_id, st |-> "refused"]]
            /\ chan' = [chan EXCEPT ![c].pc = "ended"]
            /\ UNCHANGED active_connections
  /\ UNCHANGED <<tasks, staged, bg, issued, http, run, pipeline, emitted,
                 dbFaults, delivered, auth, cred, push, reply>>

\* the handler's send_json returns or raises; frames leave a socket in the
\* order their sends were called
EndpointSent(c, exc) ==
  /\ chan[c].pc \in {"welcome", "pong", "keepalive"}
  /\ chan[c].outq # <<>> /\ Head(chan[c].outq) = 0
  /\ IF ws[c].st = "open"
       THEN /\ chan' = [chan EXCEPT
                          ![c] = [Deliver(@, HandlerEvent(@.pc)) EXCEPT
                                    !.pc = "receive", !.outq = Tail(@)]]
            /\ UNCHANGED <<ws, active_connections, push>>
     ELSE IF exc = "WebSocketDisconnect"
       THEN ExceptDisconnect(c)
     ELSE /\ chan' = [chan EXCEPT ![c].pc = "aborted", ![c].outq = Tail(@)]
          /\ UNCHANGED <<ws, active_connections, push>>
  /\ UNCHANGED <<tasks, staged, bg, issued, http, run, pipeline, emitted,
                 dbFaults, delivered, auth, cred, reply>>

\* receive_text returns data: "ping" is answered, any other text is dropped
EndpointText(c, data) ==
  /\ chan[c].pc = "receive"
  /\ ws[c].st = "open"
  /\ chan[c].idle + chan[c].asked < MaxTicks
  /\ chan' = IF data = "ping"
               THEN [chan EXCEPT ![c].pc = "pong", ![c].outq = Append(@, 0),
                                 ![c].asked = @ + 1]
               ELSE chan
  /\ UNCHANGED <<tasks, staged, bg, issued, http, run, pipeline, emitted,
                 active_connections, ws, dbFaults, delivered, auth, cred, push,
                 reply>>

\* wait_for raises TimeoutError after 30 s without a text: the keepalive ping
EndpointTimeout(c) ==
  /\ chan[c].pc = "receive"
  /\ ws[c].st = "open"
  /\ chan[c].idle + chan[c].asked < MaxTicks
  /\ chan' = [chan EXCEPT ![c].pc = "keepalive", ![c].outq = Append(@, 0),
                          ![c].idle = @ + 1]
  /\ UNCHANGED <<tasks, staged, bg, issued, http, run, pipeline, emitted,
                 active_connections, ws, dbFaults, delivered, auth, cred, push,
                 reply>>

\* receive_text raises WebSocketDisconnect
EndpointDisconnect(c) ==
  /\ chan[c].pc = "receive"
  /\ ws[c].st = "closed"
  /\ ExceptDisconnect(c)
  /\ UNCHANGED <<tasks, staged, bg, issued, http, run, pipeline, emitted,
                 dbFaults, delivered, auth, cred, reply>>

\* caller p calls send_to_user(user_id, message)
EndpointPush(p, user_id) ==
  /\ push[p].pc # "send"
  /\ LET res == SendToUser(active_connections, user_id,
                           PushStart(active_connections, user_id))
     IN /\ HubAfter(p, res)
        /\ chan' = Enqueue(chan, p, res)

\* connection.send_text of the call of p returns or raises
EndpointPushSend(p) ==
  /\ push[p].pc = "send"
  /\ LET r == push[p]
         c == r.cur
         sent == ws[c].st = "open"
         res == LoopNext(active_connections, r.user, SendOutcome(r, sent))
     IN /\ chan[c].outq # <<>> /\ Head(chan[c].outq) = p
        /\ HubAfter(p, res)
        /\ chan' = Enqueue([chan EXCEPT
                              ![c] = [IF sent THEN Deliver(@, "push") ELSE @
                                        EXCEPT !.outq = Tail(@)]],
                           p, res)

\* the steps the handler of c takes by itself: its timer, the end of its
\* sends, the disconnect its receive sees
HandlerStep(c) ==
  \/ EndpointTimeout(c)
  \/ \E exc \in SendFailures : EndpointSent(c, exc)
  \/ EndpointDisconnect(c)

EndpointNext ==
  \/ \E c \in ChannelIds, user_id \in Users, token \in Tokens :
       EndpointOpen(c, user_id, token)
  \/ \E c \in ChannelIds : ClientClose(c)
  \/ \E c \in ChannelIds, data \in InboundTexts : EndpointText(c, data)
  \/ \E c \in ChannelIds : HandlerStep(c)
  \/ \E p \in Pushers, user_id \in Users : EndpointPush(p, user_id)
  \/ \E p \in Pushers : EndpointPushSend(p)

\* The event loop runs every handler that is ready and the transport ends
\* every send: the steps of the handlers and the sends of the pushes are
\* fair.  Clients and the callers of send_to_user are not.
EndpointSpec ==
  /\ Init
  /\ [][EndpointNext]_vars
  /\ \A c \in ChannelIds : WF_vars(HandlerStep(c))
  /\ \A p \in Pushers : WF_vars(EndpointPushSend(p))

(* ------------------- get_task_status and list_tasks -------------------- *)
\* a row as the table holds it: what submit_file added, the server default
\* created_at, and the status a worker may have left
StoredRow(id, user_id, created_at) ==
  LET row == NewTask(user_id, "a.txt", MAX_FILE_SIZE_BYTES, "summarize") IN
  [created_at |-> created_at] @@
    (IF id % 3 = 0 THEN row
     ELSE IF id % 3 = 1
       THEN [row EXCEPT !.status = "completed", !.result = Some(<<"O", "K">>)]
     ELSE [row EXCEPT !.status = "failed",
                      !.error_message = Some(EmptyFileMsg)])

\* who owns the row of an id: all rows user 1; the first row user 2; by turns
OwnerPatterns ==
  {[id \in 1..MaxRows |-> 1],
   [id \in 1..MaxRows |-> IF id = 1 THEN 2 ELSE 1],
   [id \in 1..MaxRows |-> 1 + (id % 2)]}

\* created_at of the row of an id (ids are uuid4, unrelated to time): rising
\* with the id, falling with it, equal in pairs
TimePatterns ==
  {[id \in 1..MaxRows |-> id],
   [id \in 1..MaxRows |-> MaxRows + 1 - id],
   [id \in 1..MaxRows |-> (id + 1) \div 2]}

\* the service started on a table that holds n rows of earlier submissions
ReadInit ==
  /\ \E n \in 0..MaxRows, owner \in OwnerPatterns, time \in TimePatterns :
       tasks = [id \in 1..n |-> StoredRow(id, owner[id], time[id])]
  /\ Started

\* TaskStatusResponse of a row
Snapshot(tbl, id) ==
  [task_id |-> id, status |-> tbl[id].status, filename |-> tbl[id].filename,
   task_type |-> tbl[id].task_type, result |-> tbl[id].result,
   error_message |-> tbl[id].error_message, created_at |-> tbl[id].created_at]

\* get_task_status, seeded fault: the query filters by id alone
WhereId(tbl, principal, task_id) == task_id \in DOMAIN tbl

\* .where(ProcessingTaskDB.id == task_uuid,
\*        ProcessingTaskDB.user_id == current_user.user_id)
WhereIdAndOwner(tbl, principal, task_id) ==
  task_id \in DOMAIN tbl /\ tbl[task_id].user_id = principal

\* GET /process/tasks/{task_id}; task_id 0 stands for a string that is no UUID
get_task_status(tbl, principal, task_id) ==
  LET rq == [NoReply EXCEPT !.op = "get_task_status", !.principal = principal,
                            !.task_id = task_id] IN
  IF task_id = 0
    THEN [rq EXCEPT !.code = 422, !.detail = "Invalid task ID format."]
  ELSE IF ~WhereIdAndOwner(tbl, principal, task_id)
    THEN [rq EXCEPT !.code = 404, !.detail = "Task not found."]
  ELSE [rq EXCEPT !.code = 200, !.body = <<Snapshot(tbl, task_id)>>]

\* ORDER BY created_at DESC: a comes before b; the order of rows with equal
\* created_at is the database's choice, here by id one way or the other
Before(tbl, a, b, low_id_first) ==
  \/ tbl[a].created_at > tbl[b].created_at
  \/ /\ tbl[a].created_at = tbl[b].created_at
     /\ IF low_id_first THEN a < b ELSE a > b

RECURSIVE OrderBy(_, _, _)
OrderBy(tbl, ids, low_id_first) ==
  IF ids = {} THEN <<>>
  ELSE LET first == CHOOSE a \in ids :
                      \A b \in ids \ {a} : Before(tbl, a, b, low_id_first)
       IN <<first>> \o OrderBy(tbl, ids \ {first}, low_id_first)

\* list_tasks, seeded fault: no .limit(50)
NoLimit(s) == s

\* .limit(50)
Limit(s) == SubSeq(s, 1, IF Len(s) < ListLimit THEN Len(s) ELSE ListLimit)

\* GET /process/tasks
list_tasks(tbl, principal, low_id_first) ==
  LET ids == {id \in DOMAIN tbl : tbl[id].user_id = principal}
      rows == Limit(OrderBy(tbl, ids, low_id_first))
  IN [NoReply EXCEPT !.op = "list_tasks", !.principal = principal,
                     !.code = 200,
                     !.body = [i \in 1..Len(rows) |-> Snapshot(tbl, rows[i])]]

GetStatus(principal, task_id) ==
  /\ reply' = get_task_status(tasks, principal, task_id)
  /\ UNCHANGED <<tasks, staged, bg, issued, http, run, pipeline, emitted,
                 active_connections, ws, dbFaults, delivered, auth, cred, push,
                 chan>>

ListTasks(principal, low_id_first) ==
  /\ reply' = list_tasks(tasks, principal, low_id_first)
  /\ UNCHANGED <<tasks, staged, bg, issued, http, run, pipeline, emitted,
                 active_connections, ws, dbFaults, delivered, auth, cred, push,
                 chan>>

\* the task ids asked for: no UUID, two ids, an id no row has
AskedIds == {0, 1, 2, MaxRows + 1}

ReadNext ==
  \/ \E principal \in Users, task_id \in AskedIds : GetStatus(principal, task_id)
  \/ \E principal \in Users, low_id_first \in BOOLEAN :
       ListTasks(principal, low_id_first)

ReadSpec == ReadInit /\ [][ReadNext]_vars

(* ------------------------------ claims -------------------------------- *)
Terminal == {"completed", "failed"}

\* the worker of task t has ended: it returned or an exception left it
RunEnded(t) == run[t].pc \in {"done", "escaped"}

\* C1: the stored status only moves pending -> processing -> completed or
\* failed; a completed or failed status never changes again and no status
\* goes back to pending or processing.
C1_StatusMonotonic ==
  [][\A t \in DOMAIN tasks :
       \/ tasks'[t].status = tasks[t].status
       \/ tasks[t].status = "pending" /\ tasks'[t].status = "processing"
       \/ tasks[t].status = "processing" /\ tasks'[t].status \in Terminal]_vars

\* C2: while pending or processing a task has neither result nor error
\* detail; completed, it has a result and no error detail; failed, it has
\* an error detail and no result.
C2_ResultXorError ==
  \A t \in DOMAIN tasks :
    /\ tasks[t].status \in {"pending", "processing"} =>
         tasks[t].result = NoneVal /\ tasks[t].error_message = NoneVal
    /\ tasks[t].status = "completed" =>
         tasks[t].result # NoneVal /\ tasks[t].error_message = NoneVal
    /\ tasks[t].status = "failed" =>
         tasks[t].error_message # NoneVal /\ tasks[t].result = NoneVal

\* C3: every accepted submission's task reaches completed or failed: a
\* worker that has ended has left its task in a terminal status, whatever
\* the owner's channels did meanwhile.  Stated for the behaviours in which
\* no store operation failed.
C3_EndsTerminal ==
  dbFaults = 0 =>
    \A t \in DOMAIN tasks : RunEnded(t) => tasks[t].status \in Terminal

\* C4: no failure raised inside a worker run leaves the run: every failure,
\* at any step, ends with the task failed and a failed event emitted.
C4_NoFailureEscapes ==
  \A t \in DOMAIN tasks :
    /\ run[t].pc # "escaped"
    /\ (RunEnded(t) /\ run[t].err # "") =>
         tasks[t].status = "failed" /\ <<t, "task_failed">> \in emitted

\* C5: whenever a worker run has ended, by any path, the staged temporary
\* file of its submission has been removed.
C5_StagedFileRemoved ==
  \A t \in DOMAIN tasks : RunEnded(t) => t \notin staged

\* C6: when text extraction fails, the task ends failed with the extractor's
\* message as error detail, a failed event is emitted and the inference
\* client is never called for the task.
C6_ExtractionFailure ==
  \A t \in DOMAIN tasks :
    pipeline[t].extract = "failed" =>
      /\ pipeline[t].ai_calls = 0 /\ pipeline[t].llm_calls = 0
      /\ RunEnded(t) =>
           /\ tasks[t].status = "failed"
           /\ tasks[t].error_message = Some(pipeline[t].msg)
           /\ <<t, "task_failed">> \in emitted

\* C7: the final stored state is completed with the text inference returned
\* exactly when extraction and inference both succeeded, and failed with the
\* failure's message exactly when one of them failed; a task whose extraction
\* and inference succeeded is never stored as failed.  Stated for the
\* behaviours in which no store operation failed.
C7_FinalStateMatchesPipeline ==
  dbFaults = 0 =>
    \A t \in DOMAIN tasks :
      LET both == pipeline[t].extract = "ok" /\ pipeline[t].infer = "ok"
          one == pipeline[t].extract = "failed" \/ pipeline[t].infer = "failed"
      IN /\ (tasks[t].status = "failed") => ~both
         /\ (tasks[t].status = "completed") => both
         /\ RunEnded(t) =>
              /\ both => /\ tasks[t].status = "completed"
                         /\ tasks[t].result = pipeline[t].ret
              /\ one => /\ tasks[t].status = "failed"
                        /\ tasks[t].error_message = Some(pipeline[t].msg)

\* a request has been served
Served(r) == http[r].code # 0

Invalid(r) ==
  http[r].size > MAX_FILE_SIZE_BYTES \/ http[r].task_type \notin valid_tasks

\* C8: a submission over the maximum size or with an unknown task type is
\* rejected (413 or 422) and changes nothing: no row, no staged file, no
\* scheduled run, for this request or any other; a size equal to the maximum
\* is not rejected.
C8_RejectedSubmitChangesNothing ==
  /\ [](\A r \in TaskIds :
          Served(r) =>
            /\ Invalid(r) <=> http[r].code \in {413, 422}
            /\ Invalid(r) => r \notin DOMAIN tasks /\ r \notin staged /\ bg[r] = 0
            /\ (http[r].size = MAX_FILE_SIZE_BYTES /\ http[r].task_type \in valid_tasks)
                 => http[r].code \in {202, 500})
  /\ [][\A r \in TaskIds :
          (~Served(r) /\ http'[r].code \in {413, 422}) =>
             UNCHANGED <<tasks, staged, bg>>]_vars

\* a rejected request beside an accepted one of exactly the maximum size
C8_Witness ==
  \E r, t \in TaskIds :
    /\ http[r].code \in {413, 422}
    /\ http[t].code = 202
    /\ t \in DOMAIN tasks
    /\ tasks[t].file_size = MAX_FILE_SIZE_BYTES

\* C9: every accepted submission has exactly one worker run scheduled, and
\* the run calls extraction at most once and inference at most once.
C9_OneRunOneAttempt ==
  \A r \in TaskIds :
    /\ http[r].code = 202 => bg[r] = 1
    /\ bg[r] <= 1
    /\ pipeline[r].extract_calls <= 1
    /\ pipeline[r].ai_calls <= 1
    /\ pipeline[r].llm_calls <= 1

\* a run that ended after a failed inference call, with one call of each
C9_Witness ==
  \E t \in DOMAIN tasks :
    /\ RunEnded(t)
    /\ bg[t] = 1
    /\ pipeline[t].infer = "failed"
    /\ pipeline[t].extract_calls = 1
    /\ pipeline[t].llm_calls = 1

\* C10: the acknowledgment {task id, pending} is produced before the worker
\* of the task takes its first step: when it is produced the row exists with
\* status pending and nothing of the pipeline has run, and a worker only
\* runs for an acknowledged task.
C10_AckBeforeExecute ==
  /\ [](\A t \in TaskIds : run[t].pc # "none" => http[t].code = 202)
  /\ [][\A t \in TaskIds :
          (http[t].code # 202 /\ http'[t].code = 202) =>
             /\ http'[t].status = "pending"
             /\ t \in DOMAIN tasks'
             /\ tasks'[t].status = "pending"
             /\ run'[t] = NoRun
             /\ pipeline'[t] = NoPipeline]_vars

\* an acknowledged task whose worker has not begun
C10_Witness ==
  \E t \in DOMAIN tasks :
    /\ http[t].code = 202
    /\ http[t].status = "pending"
    /\ tasks[t].status = "pending"
    /\ run[t].pc = "none"

\* C11: every task's owner is the principal whose credential came with its
\* submission; no principal creates a task owned by another owner identifier,
\* whose events would go to that owner's connections.
C11_OwnerIsPrincipal ==
  \A t \in DOMAIN tasks : auth[t] # 0 => tasks[t].user_id = auth[t]

\* C12: a connection is registered under owner o only if it was opened with
\* a valid credential whose user_id is o; a connection opened with a missing,
\* invalid or mismatching credential is refused, is never in the registry and
\* is never sent an event.
C12_RegisteredOnlyWithCredential ==
  \A c \in ChannelIds :
    cred[c] # NoneVal =>
      LET o == cred[c][1].user_id
          valid == cred[c][1].token = Some(Jwt(TRUE, o))
      IN /\ (\E u \in Users : c \in Registered(active_connections, u)) =>
              valid /\ c \in Registered(active_connections, o)
         /\ ~valid =>
              /\ ws[c].st = "refused"
              /\ \A p \in PushIds : c \notin push[p].tried /\ push[p].cur # c

\* the rows of a table that belong to owner
OwnRows(tbl, owner) ==
  [id \in {t \in DOMAIN tbl : tbl[t].user_id = owner} |-> tbl[id]]

\* C13: get_task_status returns a snapshot only of a task the principal owns;
\* a task id of another owner's task gets the same not-found response as an
\* id no task has: the response is a function of the principal's own rows and
\* does not depend on other owners' tasks.
C13_StatusOnlyForOwner ==
  reply.op = "get_task_status" =>
    LET own == OwnRows(tasks, reply.principal) IN
    IF reply.task_id = 0 THEN reply.code = 422 /\ reply.body = <<>>
    ELSE IF reply.task_id \in DOMAIN own
      THEN /\ reply.code = 200
           /\ reply.body = <<Snapshot(own, reply.task_id)>>
      ELSE /\ reply.code = 404
           /\ reply.detail = "Task not found."
           /\ reply.body = <<>>

\* not found for a task that exists and belongs to another owner
C13_Witness ==
  /\ reply.op = "get_task_status"
  /\ reply.code = 404
  /\ reply.task_id \in DOMAIN tasks
  /\ tasks[reply.task_id].user_id # reply.principal

\* the call of p has ended: send_to_user returned or raised
PushEnded(p) == push[p].pc \in {"returned", "raised"}

\* C14: a push attempts delivery to every connection registered for the owner
\* for the whole duration of the push, also when another connection's send
\* fails or another connection of the owner is registered or unregistered
\* while the push is suspended: no live connection registered throughout is
\* skipped.
C14_NoChannelSkipped ==
  \A p \in PushIds :
    PushEnded(p) =>
      \A c \in push[p].stable : ws[c].st = "open" => c \in push[p].tried

\* C15: when a push returns, every connection whose send failed during it is
\* no longer registered for the owner and every connection whose send
\* succeeded still is; and no push is sent on to a connection that a returned
\* push has removed.
C15_DeadRemovedLiveKept ==
  [][\A p \in PushIds :
       /\ (push[p].pc = "send" /\ push'[p].pc = "returned") =>
            LET reg == Registered(active_connections', push'[p].user) IN
            /\ push'[p].failed \cap reg = {}
            /\ push'[p].ok \subseteq reg
       /\ (push'[p].pc = "send" /\ push'[p].it # push[p].it) =>
            \A q \in PushIds :
              (push[q].pc = "returned" /\ push[q].user = push'[p].user) =>
                 push'[p].cur \notin push[q].failed]_vars

\* C16: while a push to owner o is in progress, suspended sends included, no
\* register, unregister or other push changes the membership of the bucket
\* of o, and the push never fails because a connection or the bucket it is
\* about to remove is already gone.
C16_BucketExclusive ==
  [][\A p \in PushIds :
       push[p].pc = "send" =>
         /\ push'[p].pc # "raised"
         /\ (push'[p].pc = "send" /\ push'[p].it = push[p].it) =>
              Registered(active_connections', push[p].user) =
                Registered(active_connections, push[p].user)]_vars

\* C17: no owner identifier maps to an empty bucket: when the last connection
\* of an owner is removed, by disconnect or by the pruning of dead connections
\* in a push, the owner's entry is removed from the registry.
C17_NoEmptyBucket ==
  \A u \in DOMAIN active_connections : active_connections[u] # <<>>

\* C18: a push to an owner without a registered connection (never connected,
\* all unregistered, or all pruned) is a no-op: it returns at once, raises
\* nothing, sends nothing and leaves the registry as it is.
C18_PushToNobodyIsNoOp ==
  [][\A p \in PushIds :
       (push[p].pc # "send" /\ push'[p] # push[p]
          /\ push'[p].start \in {"absent", "empty"}) =>
         /\ push'[p].pc = "returned"
         /\ push'[p].exc = ""
         /\ push'[p].tried = {}
         /\ active_connections' = active_connections
         /\ ws' = ws]_vars

\* a push that returned at once for an owner whose connections were all pruned,
\* beside one for an owner that has no bucket
C18_Witness ==
  \E p, q \in PushIds :
    /\ push[p].pc = "returned" /\ push[p].start = "empty"
    /\ push[p].tried = {}
    /\ push[q].pc = "returned" /\ push[q].start = "absent"

\* C19: a status reported to the owner is not rolled back: once the completed
\* event of a task has been sent to a connection, the stored status stays
\* completed, the result stays set and no failed event is emitted for the task.
C19_ReportedNotRolledBack ==
  \A t \in delivered :
    /\ tasks[t].status = "completed"
    /\ tasks[t].result # NoneVal
    /\ <<t, "task_failed">> \notin emitted

TerminalEventEmitted(t) ==
  <<t, "task_completed">> \in emitted \/ <<t, "task_failed">> \in emitted

\* C25: within a run the steps come in this order: persist processing, emit
\* started, extract, infer, persist the terminal status, emit the terminal
\* event, remove the staged file.  So an event is emitted only once the status
\* it announces is committed, the started event of a task is sent before its
\* terminal event, and nothing of the run follows the terminal event but the
\* removal of the file.
C25_StepsInOrder ==
  [][\A t \in DOMAIN tasks :
       /\ (<<t, "task_started">> \in emitted' \ emitted) =>
            /\ tasks'[t].status = "processing"
            /\ pipeline[t] = NoPipeline
            /\ ~TerminalEventEmitted(t)
       /\ (pipeline'[t].extract_calls > pipeline[t].extract_calls) =>
            /\ <<t, "task_started">> \in emitted'
            /\ tasks'[t].status = "processing"
       /\ (pipeline'[t].llm_calls > pipeline[t].llm_calls) =>
            pipeline'[t].extract = "ok"
       /\ (<<t, "task_completed">> \in emitted' \ emitted) =>
            /\ tasks'[t].status = "completed"
            /\ pipeline[t].infer = "ok"
       /\ (<<t, "task_failed">> \in emitted' \ emitted) =>
            tasks'[t].status = "failed"
       /\ (run[t].pc = "send" /\ run[t].evt = "task_started") =>
            ~TerminalEventEmitted(t)
       /\ TerminalEventEmitted(t) =>
            /\ tasks'[t].status = tasks[t].status
            /\ pipeline'[t] = pipeline[t]
            /\ \A e \in emitted' \ emitted : e[1] # t
       /\ (t \in staged /\ t \notin staged') => RunEnded(t)'
       /\ RunEnded(t) => run'[t] = run[t] /\ tasks'[t] = tasks[t]]_vars

\* C26: runs of different tasks are independent: the final status of a task
\* follows from its own extraction and inference outcomes alone, also when
\* another run of the same owner pushes to the same connections at the same
\* time and finds the same dead connection.  Stated for the behaviours in
\* which no store operation failed and no connection handler has yet run
\* manager.disconnect.
C26_RunsIndependent ==
  (dbFaults = 0 /\ \A c \in ChannelIds : ws[c].st \in {"new", "open", "closed"}) =>
    \A t \in DOMAIN tasks :
      RunEnded(t) =>
        /\ run[t].pc = "done"
        /\ (pipeline[t].extract = "ok" /\ pipeline[t].infer = "ok") <=>
             tasks[t].status = "completed"
        /\ (pipeline[t].extract = "failed" \/ pipeline[t].infer = "failed") <=>
             tasks[t].status = "failed"

\* C29: manager.disconnect never raises, also when a failed push has already
\* pruned the connection from the bucket (the bucket still present, empty or
\* not) before the handler of the connection sees the disconnect.
C29_UnregisterNeverRaises ==
  \A c \in ChannelIds : ws[c].st # "crashed"

\* C30: when the INSERT of submit_file fails, the failure goes to the caller,
\* no run is scheduled, no row exists for the task id and no staged file of
\* the submission is left.
C30_FailedSubmitLeavesNothing ==
  \A r \in TaskIds :
    http[r].code = 500 =>
      /\ r \notin DOMAIN tasks
      /\ bg[r] = 0
      /\ run[r].pc = "none"
      /\ r \notin staged

\* C28: an event is delivered only to connections registered under the user
\* it is pushed to, while the push is in progress: never to a connection of
\* another user, and a call of send_to_user that has ended delivers to nobody
\* afterwards, so a connection registered after the push never receives it.
C28_DeliveredOnlyToOwnersChannels ==
  [][\A p \in PushIds :
       /\ push[p].pc = "send" =>
            \A c \in push'[p].ok \ push[p].ok :
              /\ push'[p].user = push[p].user
              /\ ws[c].user = push[p].user
              /\ c \in Registered(active_connections, push[p].user)
       /\ push[p].pc # "send" =>
            push'[p].ok = push[p].ok \/ push'[p].ok = {}]_vars

\* a push has returned after delivering to a connection, and a connection
\* registered under the same user since has not been sent to
C28_Witness ==
  \E p \in PushIds, c \in ChannelIds :
    /\ push[p].pc = "returned"
    /\ push[p].ok # {}
    /\ ws[c].st = "open"
    /\ c \in Registered(active_connections, push[p].user)
    /\ c \notin push[p].tried

\* the columns the worker writes
WrittenColumns == {"status", "result", "error_message"}

\* C27: a run of task t changes only status, result and error_message of the
\* row of t: the other columns of the row stay as submitted, a step changes
\* the row of at most one task, which is the task of the run taking the step,
\* and no step removes a row.
C27_RunWritesOnlyItsRow ==
  [][/\ DOMAIN tasks \subseteq DOMAIN tasks'
     /\ \A t \in DOMAIN tasks :
          /\ \A col \in DOMAIN tasks[t] \ WrittenColumns :
               tasks'[t][col] = tasks[t][col]
          /\ tasks'[t] # tasks[t] =>
               /\ bg[t] = 1 /\ ~RunEnded(t)
               /\ run'[t] # run[t]
               /\ \A u \in DOMAIN tasks \ {t} :
                    tasks'[u] = tasks[u] /\ run'[u] = run[u]]_vars

\* a run has ended with its row in a final status while the row of another
\* task is still as submitted
C27_Witness ==
  \E t \in DOMAIN tasks, u \in DOMAIN tasks :
    /\ t # u
    /\ RunEnded(t)
    /\ tasks[t].status \in Terminal
    /\ tasks[u] = NewTask(tasks[u].user_id, tasks[u].filename,
                          tasks[u].file_size, tasks[u].task_type)

\* C21: the result of a completed task is a text that is not empty and the
\* error_message of a failed task is a text that is not empty, whatever the
\* model answered and whatever exception the pipeline raised.
C21_ResultAndErrorNonEmpty ==
  \A t \in DOMAIN tasks :
    /\ tasks[t].status = "completed" =>
         tasks[t].result # NoneVal /\ tasks[t].result # Some(<<>>)
    /\ tasks[t].status = "failed" =>
         tasks[t].error_message # NoneVal /\ tasks[t].error_message # Some("")

\* C22: a call of the model does not stay unanswered for ever: the run leaves
\* process_with_ai, by an answer, an error or the expiry of a timeout, and a
\* task whose run is in the call does not stay processing.
C22_InferenceEnds ==
  \A t \in TaskIds : (run[t].pc = "infer") ~> (run[t].pc # "infer")

\* C23: a connection whose client has closed it does not stay registered for
\* ever: the handler sees the disconnect, or a push fails on it, and the
\* connection leaves active_connections.
C23_DeadChannelRemoved ==
  \A c \in ChannelIds :
    (ws[c].st = "closed" /\ c \in Registered(active_connections, ws[c].user))
      ~> (c \notin Registered(active_connections, ws[c].user))

\* the handler of c is in its loop on an open socket
InLoop(c) ==
  ws[c].st = "open" /\ chan[c].pc \in {"receive", "pong", "keepalive"}

\* C24: the first frame a registered connection gets is the connected event;
\* from then on each timeout of the loop gives one keepalive ping and each
\* "ping" text one pong, whatever the pushes do: the frames delivered and the
\* one still being sent add up to the timeouts and to the texts seen.
C24_WelcomeFirstThenPings ==
  \A c \in ChannelIds :
    /\ chan[c].first \in {"", "connected"}
    /\ chan[c].keepalives <= chan[c].idle /\ chan[c].pongs <= chan[c].asked
    /\ InLoop(c) =>
         /\ chan[c].first = "connected"
         /\ chan[c].idle =
              chan[c].keepalives + (IF chan[c].pc = "keepalive" THEN 1 ELSE 0)
         /\ chan[c].asked =
              chan[c].pongs + (IF chan[c].pc = "pong" THEN 1 ELSE 0)

\* a connection has got the connected event, a keepalive ping, a pong and an
\* event of a push
C24_Witness ==
  \E c \in ChannelIds, p \in Pushers :
    /\ InLoop(c)
    /\ chan[c].first = "connected"
    /\ chan[c].keepalives = 1
    /\ chan[c].pongs = 1
    /\ c \in push[p].ok

\* a text of white space only, the empty text included
AllSpace(s) == \A i \in 1..Len(s) : IsSpace(s[i])

\* C31: when extract_text_from_file returns an empty text or one of white
\* space only, the model is never called for the task, and the task ends
\* failed with the message of process_with_ai as its error_message.
C31_BlankTextFailsWithoutCall ==
  \A t \in DOMAIN tasks :
    (pipeline[t].text # NoneVal /\ AllSpace(pipeline[t].text[1])) =>
      /\ pipeline[t].llm_calls = 0
      /\ run[t].pc # "infer"
      /\ RunEnded(t) =>
           /\ tasks[t].status = "failed"
           /\ tasks[t].error_message = Some(EmptyFileMsg)

\* the extensions extract_text_from_file has a branch for
KnownExtensions == {".txt", ".pdf", ".docx", ".doc"}

\* C32: a task whose file name has an extension without an extractor ends
\* failed with the unsupported-file-type message as its error_message, and the
\* model is never called for it.  Stated for the behaviours in which no store
\* operation failed.
C32_UnsupportedExtensionFails ==
  dbFaults = 0 =>
    \A t \in DOMAIN tasks :
      Suffix(tasks[t].filename) \notin KnownExtensions =>
        /\ pipeline[t].llm_calls = 0
        /\ RunEnded(t) =>
             /\ tasks[t].status = "failed"
             /\ tasks[t].error_message = Some(UnsupportedMsg)

====
